---- MODULE Spec2Model ----
(***************************************************************************)
(* Usage ledger, quota policy and billing-period calculator of the         *)
(* prompter API (apps/api/app/services/quotas.py, apps/api/app/deps/       *)
(* quotas.py, apps/api/app/api/v1/endpoints/scans.py).                     *)
(*                                                                         *)
(* Request handlers run concurrently, each in its own database session     *)
(* (get_db opens one session per request).  The store is PostgreSQL at     *)
(* READ COMMITTED: a plain SELECT sees the last committed row, SELECT ...  *)
(* FOR UPDATE and UPDATE wait for the row lock, an INSERT of a key another *)
(* transaction has inserted waits for that transaction, and the ORM writes *)
(* the value it computed in memory (UPDATE ... SET col = <value>).         *)
(***************************************************************************)
EXTENDS Integers, Sequences, FiniteSets, TLC

VARIABLES
    now,        \* datetime.utcnow(), fixed during one behaviour of the ledger
    org,        \* the committed row of table orgs (one organization)
    usage,      \* the committed rows of table org_monthly_usage
    scan_runs,  \* number of committed rows of table scan_runs
    sess,       \* per request: position in its handler and in-memory objects
    seed,       \* counters of the current period before the first request
    granted,    \* per resource, sum of the amounts of the successful reservations
    anchor_in,  \* billing-period calculator: org.billing_cycle_anchor
    ref,        \* billing-period calculator: reference_date
    period,     \* billing-period calculator: the returned (period_start, period_end)
    ppc,        \* billing-period calculator: "input" or "returned"
    clock,      \* idempotency store: datetime.utcnow() in hours
    idem,       \* the committed rows of table idempotency_keys
    call,       \* per caller: its check_/store_idempotency_key call and the outcome
    req,        \* per create_scan_run request: its Idempotency-Key header and history
    redis,      \* job queue: the idempotency markers, the queues and the job hashes
    enq,        \* per caller: its enqueue_scan / enqueue_page_generation call
    worker,     \* the worker process started from apps/worker/app/main.py
    warn,       \* check_warning: its arguments and the returned flag
    brands,     \* the committed rows of table brands of one organization
    walk,       \* a client following next_cursor through list_brands
    exec,       \* scan executor: one scan run, its result rows and its executions
    counts,     \* count-based quotas: plan tier, committed rows of brands and org_members
    gate,       \* per create_brand / invite_member request: its position and count
    quote       \* scan credits of one model list: reserved and charged

vars == <<now, org, usage, scan_runs, sess, seed, granted, anchor_in, ref, period, ppc,
          clock, idem, call, req, redis, enq, worker, warn, brands, walk,
          exec, counts, gate, quote>>
ledgerVars == <<now, org, usage, scan_runs, sess, seed, granted>>
periodVars == <<anchor_in, ref, period, ppc>>
storeVars == <<clock, idem, call, req>>
queueVars == <<redis, enq, worker>>
warnVars == <<warn>>
brandVars == <<brands, walk>>
jobVars == <<exec>>
slotVars == <<counts, gate>>
creditVars == <<quote>>

(***************************************************************************)
(* Bounds of the model.                                                    *)
(***************************************************************************)
NumSessions == 2    \* concurrent requests, one database session each
PageSessions == 4   \* concurrent page-generation requests of SpecPages
NumYears == 1       \* years of reference dates, starting with leap year 2024
SeedSpan == 2       \* initial scans_used ranges over the SeedSpan+1 values below the limit
MaxModels == 2      \* longest model list of a create_scan_run request

Sessions == 1..NumSessions
\* in Spec, one more request, which only reads the usage summary
Reader == NumSessions + 1
Years == 2024..(2023 + NumYears)

(***************************************************************************)
(* Calendar: a datetime is [y, m, d, h]; h = 0 is 00:00:00.000000 and      *)
(* h = 1 stands for any later time of that day.                            *)
(***************************************************************************)
NoDate == [y |-> 0, m |-> 0, d |-> 0, h |-> 0]   \* Python None in a DateTime column

IsLeap(y) == (y % 4 = 0 /\ y % 100 # 0) \/ y % 400 = 0

DaysIn(y, m) ==
    IF m = 2 THEN (IF IsLeap(y) THEN 29 ELSE 28)
    ELSE IF m \in {4, 6, 9, 11} THEN 30 ELSE 31

Min(a, b) == IF a <= b THEN a ELSE b

\* datetime.__lt__
Before(a, b) ==
    \/ a.y < b.y
    \/ a.y = b.y /\ a.m < b.m
    \/ a.y = b.y /\ a.m = b.m /\ a.d < b.d
    \/ a.y = b.y /\ a.m = b.m /\ a.d = b.d /\ a.h < b.h

\* dt + relativedelta(months=k), k in {-1, +1}: the day is clamped to the
\* target month's length
AddMonths(dt, k) ==
    LET mi == (dt.m - 1) + k
        yy == IF mi < 0 THEN dt.y - 1 ELSE IF mi > 11 THEN dt.y + 1 ELSE dt.y
        mm == ((mi + 12) % 12) + 1
    IN  [y |-> yy, m |-> mm, d |-> Min(dt.d, DaysIn(yy, mm)), h |-> dt.h]

\* dt.replace(hour=0, minute=0, second=0, microsecond=0)
Midnight(dt) == [dt EXCEPT !.h = 0]

\* reference_date.replace(day=anchor_day) raises ValueError
ReplaceDayFails(dt, day) == day > DaysIn(dt.y, dt.m)

\* the except branch: (reference_date.replace(day=1) + 1 month) - 1 day, at midnight
LastDayOfMonth(dt) == [y |-> dt.y, m |-> dt.m, d |-> DaysIn(dt.y, dt.m), h |-> 0]

\* the anchor day in the month of reference_date, before the "last month" step
AnchorInMonth(anchor_day, reference_date) ==
    IF ReplaceDayFails(reference_date, anchor_day)
    THEN LastDayOfMonth(reference_date)
    ELSE [y |-> reference_date.y, m |-> reference_date.m, d |-> anchor_day, h |-> 0]

get_billing_period(anchor_day, reference_date) ==
    LET first == AnchorInMonth(anchor_day, reference_date)
        period_start == IF Before(reference_date, first) THEN AddMonths(first, -1) ELSE first
    IN  [period_start |-> period_start, period_end |-> AddMonths(period_start, 1)]

NoPeriod == [period_start |-> NoDate, period_end |-> NoDate]

ReferenceDates ==
    { dt \in [y : Years, m : 1..12, d : 1..31, h : 0..1] : dt.d <= DaysIn(dt.y, dt.m) }

AnchorDays == 1..31


(***************************************************************************)
(* Quota policy (app/config.py).                                           *)
(***************************************************************************)
None == -1   \* Python None as a limit: unlimited

PLAN_QUOTAS ==
    [ starter    |-> [brands |-> 1,    prompts |-> 30,   scans |-> 1000,  ai_pages |-> 3,    seats |-> 3],
      pro        |-> [brands |-> 3,    prompts |-> 150,  scans |-> 5000,  ai_pages |-> 10,   seats |-> 10],
      business   |-> [brands |-> 10,   prompts |-> 500,  scans |-> 15000, ai_pages |-> 25,   seats |-> 25],
      enterprise |-> [brands |-> None, prompts |-> None, scans |-> None,  ai_pages |-> None, seats |-> None] ]

MODEL_WEIGHTS ==
    [ n \in { "chatgpt", "gpt-4", "gpt-3.5", "gemini", "gemini-pro", "perplexity_online",
              "perplexity-sonar", "llama-3.1-sonar-large-128k-online",
              "llama-3.1-sonar-small-128k-online" } |->
        IF n \in { "perplexity_online", "perplexity-sonar",
                   "llama-3.1-sonar-large-128k-online", "llama-3.1-sonar-small-128k-online" }
        THEN 2 ELSE 1 ]

\* model names a request may carry: the configured ones and some that are not
ModelNames == DOMAIN MODEL_WEIGHTS \cup { "claude-3", "sonar-online", "Perplexity-Online-Pro" }

\* "online" in model_name.lower()
HasOnline(n) ==
    n \in { "perplexity_online", "llama-3.1-sonar-large-128k-online",
            "llama-3.1-sonar-small-128k-online", "sonar-online", "Perplexity-Online-Pro" }

\* "perplexity" in model_name.lower()
HasPerplexity(n) == n \in { "perplexity_online", "perplexity-sonar", "Perplexity-Online-Pro" }

\* require_scan_credit: credits_needed
CreditsNeeded(model_name) ==
    LET w == IF model_name \in DOMAIN MODEL_WEIGHTS THEN MODEL_WEIGHTS[model_name] ELSE 1
    IN  IF w = 1 /\ HasOnline(model_name) THEN 2 ELSE w

\* create_scan_run: credits of one model of the matrix
MatrixCredits(model_name) ==
    IF HasPerplexity(model_name) /\ HasOnline(model_name) THEN 2 ELSE 1

RECURSIVE TotalCreditsNeeded(_)
TotalCreditsNeeded(models) ==
    IF models = <<>> THEN 0
    ELSE MatrixCredits(Head(models)) + TotalCreditsNeeded(Tail(models))

\* any(model.startswith(prefix) for prefix in valid_prefixes), with
\* valid_prefixes = ["gpt-", "gemini", "perplexity", "claude", "llama"]
HasValidPrefix(model) ==
    model \in { "gpt-4", "gpt-3.5", "gemini", "gemini-pro", "perplexity_online",
                "perplexity-sonar", "llama-3.1-sonar-large-128k-online",
                "llama-3.1-sonar-small-128k-online", "claude-3" }

\* the model lists a request body may carry; min_length=1 rejects the empty one
RawModelLists == UNION { [1..n -> ModelNames] : n \in 1..MaxModels }

\* ScanRunCreate.validate_models: TRUE when the list is returned, FALSE when
\* ValueError is raised (the request is answered 422)
validate_models(v) == Len(v) # 0 /\ \A i \in DOMAIN v : HasValidPrefix(v[i])

\* the lists the handler sees
ModelLists == { v \in RawModelLists : validate_models(v) }

get_plan(o) == PLAN_QUOTAS[o.plan_tier]

\* mutant: the check without its "limit is None" early return
LimitExceededNoUnlimited(current, limit) == current >= limit

\* assert_within_limit raises the 429 LIMIT_EXCEEDED error
LimitExceeded(current, limit) == limit # None /\ current >= limit

\* the detail of that error
LimitError(current, limit, resource) ==
    [status |-> "rejected", resource |-> resource, limit |-> limit, current |-> current,
     used |-> 0, pages |-> 0]

\* the usage info a reservation returns
UsageInfo(used, limit) ==
    [status |-> "ok", resource |-> "", limit |-> limit, current |-> 0, used |-> used,
     pages |-> 0]

NoResult ==
    [status |-> "none", resource |-> "", limit |-> 0, current |-> 0, used |-> 0, pages |-> 0]
ErrorResult == [NoResult EXCEPT !.status = "error"]


(***************************************************************************)
(* Tables and sessions.                                                    *)
(***************************************************************************)
NoOrg ==
    [plan_tier |-> "", billing_cycle_anchor |-> 0,
     current_period_start |-> NoDate, current_period_end |-> NoDate]

NoCounters == [scans_used |-> 0, prompts_used |-> 0, ai_pages_generated |-> 0]

\* OrgMonthlyUsage(org_id, period_start, period_end, scans_used=0, ...)
OrgMonthlyUsage(p, c) ==
    [period_start |-> p.period_start, period_end |-> p.period_end,
     scans_used |-> c.scans_used, prompts_used |-> c.prompts_used,
     ai_pages_generated |-> c.ai_pages_generated]

CountersOf(r) ==
    [scans_used |-> r.scans_used, prompts_used |-> r.prompts_used,
     ai_pages_generated |-> r.ai_pages_generated]

HasRow(rows, key) == \E r \in rows : r.period_start = key
RowOf(rows, key) == CHOOSE r \in rows : r.period_start = key

BlankSession ==
    [pc |-> "idle", op |-> "none", amt |-> 0, orgv |-> NoOrg, period |-> NoPeriod,
     cur |-> NoCounters, pend |-> FALSE, locked |-> FALSE, wrote |-> FALSE,
     res |-> NoResult]

\* a finished request: the session is closed, its objects are gone; the
\* handler, its amount, its outcome and whether it changed a committed row
\* stay on record
Closed(ss, pc, res) ==
    [BlankSession EXCEPT !.pc = pc, !.op = ss.op, !.amt = ss.amt, !.wrote = ss.wrote,
                         !.res = res]

\* the request has been answered and its session closed
Finished(s) == sess[s].pc \in {"done", "rejected", "error", "invalid"}

Locking(op) == op \in {"require_scan_credit", "require_page_slot"}

\* the counter a handler reserves from
Column(op) == IF op = "require_page_slot" THEN "ai_pages_generated" ELSE "scans_used"
LimitOf(plan, op) == IF op = "require_page_slot" THEN plan.ai_pages ELSE plan.scans
ResourceName(op) == IF op = "require_page_slot" THEN "AI page generation" ELSE "Scan"

\* mutant: the query without with_for_update(), nobody ever waits for a row
RowNeverLocked(s, key) == FALSE

\* another transaction holds the row lock of the usage row `key`
RowLockedByOther(s, key) ==
    \E t \in DOMAIN sess \ {s} : sess[t].locked /\ sess[t].period.period_start = key

\* another transaction has inserted a usage row `key` and not yet ended
InsertPendingByOther(s, key) ==
    \E t \in DOMAIN sess \ {s} : sess[t].pend /\ sess[t].period.period_start = key

\* the value passed to assert_within_limit as `current`
CheckedValue(op, cur, amt) ==
    IF op = "require_page_slot" THEN cur.ai_pages_generated ELSE cur.scans_used + amt

\* the value the handler assigns to the counter
NewValue(op, cur, amt) ==
    IF op = "require_page_slot" THEN cur.ai_pages_generated + 1 ELSE cur.scans_used + amt

\* flush and commit of the session: the pending INSERT becomes visible, or
\* UPDATE org_monthly_usage SET <col> = <value> WHERE id = <row>
Committed(rows, ss, value) ==
    IF ss.pend
    THEN rows \cup { [OrgMonthlyUsage(ss.period, NoCounters) EXCEPT ![Column(ss.op)] = value] }
    ELSE { IF r.period_start = ss.period.period_start
           THEN [r EXCEPT ![Column(ss.op)] = value] ELSE r : r \in rows }


(***************************************************************************)
(* Idempotency store (app/services/idempotency.py, app/models/             *)
(* idempotency.py).  A key is its text and the len() of that text.  A      *)
(* Python response body is a dict from field names to tagged values; its   *)
(* JSON text is the document json.dumps writes, which json.loads reads     *)
(* back into str, int and None only.                                       *)
(***************************************************************************)
MinKeyLen == 16    \* len(idempotency_key) < 16 is rejected
MaxKeyLen == 255   \* len(idempotency_key) > 255 is rejected
TTLHours == 24     \* expires_at default: utcnow() + timedelta(hours=24)

\* request.headers.get("Idempotency-Key") when the header is absent
NoHeader == [text |-> <<"None", 0>>, len |-> 0]
EmptyKey == [text |-> <<"", 0>>, len |-> 0]
\* an opaque key of n characters
Key(n) == [text |-> <<"k-7f3a9c", n>>, len |-> n]

\* Python's "not idempotency_key": None or the empty string
Not(key) == key = NoHeader \/ key.len = 0

\* values of a Python dict (the value is kept as its text)
PyInt(n) == [t |-> "int", v |-> n]
PyStr(x) == [t |-> "str", v |-> x]
PyEnum(x) == [t |-> "enum", v |-> x]          \* a member of a (str, Enum) class
PyNone == [t |-> "NoneType", v |-> ""]
PyDatetime(h) == [t |-> "datetime", v |-> h]

\* {} 
EmptyBody == [k \in {} |-> PyNone]
\* a dict of JSON values
JsonBody == [k \in {"id", "status"} |-> IF k = "id" THEN PyInt("1") ELSE PyStr("queued")]
\* ScanRunResponse.from_orm(scan_run).dict(): the fields of a new scan run
ScanRunBody ==
    [k \in {"id", "status", "started_at", "created_at"} |->
        CASE k = "id" -> PyInt("1")
          [] k = "status" -> PyEnum("queued")
          [] k = "started_at" -> PyNone
          [] k = "created_at" -> PyDatetime("utcnow")]

\* json.dumps raises TypeError: Object of type datetime is not JSON serializable
JsonDumpsFails(body) == \E k \in DOMAIN body : body[k].t = "datetime"

\* mutant: json.dumps(body, default=str) with every value written as a string
JsonDumpsAsStrings(body) ==
    [k \in DOMAIN body |->
        IF body[k].t = "NoneType" THEN [j |-> "null", v |-> ""]
        ELSE [j |-> "string", v |-> body[k].v]]

\* json.dumps(body): a str-Enum member is written as its string value
JsonDumps(body) ==
    [k \in DOMAIN body |->
        IF body[k].t = "enum" THEN [j |-> "string", v |-> body[k].v]
        ELSE IF body[k].t = "str" THEN [j |-> "string", v |-> body[k].v]
        ELSE IF body[k].t = "int" THEN [j |-> "number", v |-> body[k].v]
        ELSE [j |-> "null", v |-> ""]]

\* json.loads(text)
JsonLoads(text) ==
    [k \in DOMAIN text |->
        IF text[k].j = "string" THEN PyStr(text[k].v)
        ELSE IF text[k].j = "number" THEN PyInt(text[k].v)
        ELSE PyNone]

\* Python ==: a (str, Enum) member equals the str of its value
PyEq(a, b) ==
    /\ DOMAIN a = DOMAIN b
    /\ \A k \in DOMAIN a :
         \/ a[k] = b[k]
         \/ a[k].t \in {"str", "enum"} /\ b[k].t \in {"str", "enum"} /\ a[k].v = b[k].v

\* NULL in column response_body
NullText == [k \in {"NULL"} |-> [j |-> "null", v |-> ""]]

\* IdempotencyKey(...): created_at and expires_at take their column defaults
IdempotencyKey(key, org_id, resource_type, resource_id, response_body, status_code, t) ==
    [idempotency_key |-> key.text, org_id |-> org_id, resource_type |-> resource_type,
     resource_id |-> resource_id, response_body |-> response_body,
     status_code |-> status_code, created_at |-> t, expires_at |-> t + TTLHours]

\* the rows the filter of store_idempotency_key selects
ScopeRows(rows, key, org_id, resource_type) ==
    { r \in rows : /\ r.idempotency_key = key.text
                   /\ r.org_id = org_id
                   /\ r.resource_type = resource_type }

\* the rows the filter of check_idempotency_key selects at time t
LiveRows(rows, key, org_id, resource_type, t) ==
    { r \in ScopeRows(rows, key, org_id, resource_type) : r.expires_at > t }

\* mutant: the column without unique=True
NeverUniqueViolation(rows, key) == FALSE

\* the INSERT violates the unique index on column idempotency_key
UniqueViolation(rows, key) == \E r \in rows : r.idempotency_key = key.text

\* outcomes of a call
NoOutcome == [kind |-> "none", status |-> 0, body |-> EmptyBody]
ReturnsNone == [kind |-> "None", status |-> 0, body |-> EmptyBody]
Raises(error) == [kind |-> error, status |-> 0, body |-> EmptyBody]
Cached(status_code, response_body) ==
    [kind |-> "cached", status |-> status_code, body |-> response_body]

\* mutant: the lookup without its expires_at filter
check_ignoring_expiry(rows, t, key, org_id, resource_type) ==
    IF Not(key) THEN ReturnsNone
    ELSE IF key.len < MinKeyLen \/ key.len > MaxKeyLen THEN Raises("HTTP 400")
    ELSE LET found == ScopeRows(rows, key, org_id, resource_type)
         IN  IF found = {} THEN ReturnsNone
             ELSE LET existing == CHOOSE r \in found : TRUE
                  IN  Cached(existing.status_code,
                             IF existing.response_body # NullText
                             THEN JsonLoads(existing.response_body) ELSE EmptyBody)

check_idempotency_key(rows, t, key, org_id, resource_type) ==
    IF Not(key) THEN ReturnsNone
    ELSE IF key.len < MinKeyLen \/ key.len > MaxKeyLen THEN Raises("HTTP 400")
    ELSE LET found == LiveRows(rows, key, org_id, resource_type, t)
         IN  IF found = {} THEN ReturnsNone
             ELSE LET existing == CHOOSE r \in found : TRUE
                  IN  Cached(existing.status_code,
                             IF existing.response_body # NullText
                             THEN JsonLoads(existing.response_body) ELSE EmptyBody)


\* a caller between calls
BlankCall ==
    [pc |-> "idle", fn |-> "none", key |-> NoHeader, org_id |-> 0, resource_type |-> "",
     resource_id |-> 0, status_code |-> 0, body |-> EmptyBody, batch_size |-> 0,
     out |-> NoOutcome]

\* a create_scan_run request that has not been received: its Idempotency-Key
\* header, whether it was sent after a request with the same key had returned
\* (retry), and whether it has committed a scan run (ran)
BlankRequest == [key |-> NoHeader, retry |-> FALSE, ran |-> FALSE]

\* the call with its arguments bound
CallOf(fn, key, org_id, resource_type, resource_id, status_code, body) ==
    [BlankCall EXCEPT !.fn = fn, !.key = key, !.org_id = org_id,
                      !.resource_type = resource_type, !.resource_id = resource_id,
                      !.status_code = status_code, !.body = body]

\* store_idempotency_key up to its query: "if not idempotency_key: return"
EnterStore(cl) ==
    IF Not(cl.key) THEN [cl EXCEPT !.pc = "returned", !.out = [NoOutcome EXCEPT !.kind = "no-op"]]
    ELSE [cl EXCEPT !.pc = "query"]

\* check_idempotency_key is one query
EnterCheck(cl, rows, t) ==
    [cl EXCEPT !.pc = "returned",
               !.out = check_idempotency_key(rows, t, cl.key, cl.org_id, cl.resource_type)]

\* brand.org_id of the requests: the one organization of the ledger
OrgId == 7

\* no store or check call is under way and no keyed request has been received
IdleStore ==
    /\ clock = 0
    /\ idem = {}
    /\ call = [c \in Sessions \cup {Reader} |-> BlankCall]
    /\ req = [s \in Sessions |-> BlankRequest]

\* Redis holds no marker, no queued job and no job hash; no enqueue call is
\* under way; the worker process has not been started
EmptyRedis ==
    [markers |-> {}, queued |-> [scans |-> <<>>, pages |-> <<>>, failed |-> <<>>], jobs |-> {}]

NoKey == <<"None", 0>>              \* idempotency_key=None
NoJobId == <<"", NoKey>>
NoJob == [kind |-> "none", id |-> NoJobId]

BlankEnqueue ==
    [pc |-> "idle", fn |-> "none", arg |-> 0, request_id |-> 0,
     idempotency_key |-> NoKey, out |-> NoJob,
     prior |-> {}, marker |-> "none", checked_at |-> 0, stored_at |-> 0, pushed |-> FALSE]

IdleQueue ==
    /\ redis = EmptyRedis
    /\ enq = [c \in Sessions |-> BlankEnqueue]
    /\ worker = "off"

\* check_warning has not been called
IdleWarn == warn = [pc |-> "off", current |-> 0, limit |-> 0, out |-> FALSE]

\* cursor=None: the query parameter is absent
NoCursor == [t |-> "NoneType", id |-> 0, created_at |-> 0]

\* no brand is stored and no client lists brands
IdleBrands ==
    /\ brands = {}
    /\ walk = [pc |-> "off", limit |-> 0, cursor |-> NoCursor, seen |-> <<>>, pages |-> 0]

\* no scan run is stored and the executor has not run
IdleJobs ==
    exec = [pc |-> "off", models |-> <<>>, status |-> "none", runs |-> 0,
            scan_results |-> <<>>, once |-> <<>>]

\* a create_brand / invite_member request that has not been received
BlankGate == [pc |-> "idle", op |-> "none", current |-> 0, res |-> "none"]

\* no brand or member is stored and no request is under way
IdleSlots ==
    /\ counts = [plan_tier |-> "starter", brands |-> 0, seats |-> 0]
    /\ gate = [s \in Sessions |-> BlankGate]

\* no model list has been priced
IdleCredits == quote = [pc |-> "off", models |-> <<>>, reserved |-> 0, charged |-> 0]



(***************************************************************************)
(* Initial states of the ledger: a new organization (billing period not    *)
(* initialized, no usage row), or an organization that has used the        *)
(* service, with or without a usage row for the current period.            *)
(***************************************************************************)
LedgerTimes == { [y |-> 2024, m |-> 3, d |-> 30, h |-> 1] }
LedgerTiers == { "starter", "enterprise" }
LedgerAnchors == { 30 }

\* Org(...): current_period_start is NULL, billing_cycle_anchor defaults to 1
NewOrg(tier) ==
    [plan_tier |-> tier, billing_cycle_anchor |-> 1,
     current_period_start |-> NoDate, current_period_end |-> NoDate]

\* an organization whose billing period was initialized on day `a` of January
UsedOrg(tier, a) ==
    LET start == [y |-> 2024, m |-> 1, d |-> a, h |-> 0]
    IN  [plan_tier |-> tier, billing_cycle_anchor |-> a,
         current_period_start |-> start, current_period_end |-> AddMonths(start, 1)]

\* counter values reservations can have left behind; for an unlimited plan they
\* lie above every finite limit's neighbourhood
SeedScans(tier) ==
    LET lim == PLAN_QUOTAS[tier].scans
        top == IF lim = None THEN PLAN_QUOTAS["business"].scans ELSE lim
    IN  (top - 1 - SeedSpan)..(top - 1)

SeedPages(tier) ==
    LET lim == PLAN_QUOTAS[tier].ai_pages
        top == IF lim = None THEN PLAN_QUOTAS["business"].ai_pages ELSE lim
    IN  (top - 1)..top

InitLedger(S) ==
    /\ now \in LedgerTimes
    /\ \E tier \in LedgerTiers :
         \/ /\ org = NewOrg(tier)
            /\ usage = {}
            /\ seed = NoCounters
         \/ \E a \in LedgerAnchors :
              /\ org = UsedOrg(tier, a)
              /\ \/ usage = {} /\ seed = NoCounters
                 \/ \E sc \in SeedScans(tier), pg \in SeedPages(tier) :
                      /\ seed = [scans_used |-> sc, prompts_used |-> 0,
                                 ai_pages_generated |-> pg]
                      /\ usage = { OrgMonthlyUsage(get_billing_period(a, now), seed) }
    /\ scan_runs = 0
    /\ sess = [s \in S |-> BlankSession]
    /\ granted = [scans_used |-> 0, ai_pages_generated |-> 0]

IdlePeriod ==
    /\ anchor_in = 1
    /\ ref = NoDate
    /\ period = NoPeriod
    /\ ppc = "off"

Init == InitLedger(Sessions \cup {Reader}) /\ IdlePeriod /\ IdleStore /\ IdleQueue /\ IdleJobs /\ IdleSlots /\ IdleCredits /\ IdleWarn /\ IdleBrands

InitReserve == InitLedger(Sessions) /\ IdlePeriod /\ IdleStore /\ IdleQueue /\ IdleJobs /\ IdleSlots /\ IdleCredits /\ IdleWarn /\ IdleBrands

InitPages ==
    /\ InitLedger(1..PageSessions)
    /\ IdlePeriod
    /\ IdleStore /\ IdleQueue /\ IdleJobs /\ IdleSlots /\ IdleCredits /\ IdleWarn /\ IdleBrands
    /\ org.plan_tier = "starter"

(***************************************************************************)
(* Handlers, one action per database round trip.                           *)
(***************************************************************************)
\* the handler is entered and loads the organization:
\* org = db.query(Org).filter(Org.id == org_id).first()
Begin(s, op, amt) ==
    /\ sess[s].pc = "idle"
    /\ sess' = [sess EXCEPT ![s] =
                  [@ EXCEPT !.pc = "loaded", !.op = op, !.amt = amt, !.orgv = org]]
    /\ UNCHANGED <<now, org, usage, scan_runs, seed, granted, periodVars, queueVars, warnVars, jobVars, slotVars, creditVars, brandVars, storeVars>>

\* credits_needed of the model names a request may carry
ScanCreditInputs == { CreditsNeeded(model_name) : model_name \in ModelNames }

RequireScanCredit(s) ==
    \E credits_needed \in ScanCreditInputs : Begin(s, "require_scan_credit", credits_needed)

RequirePageSlot(s) == Begin(s, "require_page_slot", 1)

GetUsageSummary(s) == Begin(s, "get_usage_summary", 0)

\* create_scan_run up to "if scan_data.models:"; an empty matrix reserves nothing
\* (len(scan_data.models), total_credits_needed) of the model lists a request may carry
MatrixInputs == { <<Len(models), TotalCreditsNeeded(models)>> : models \in ModelLists }

CreateScanRun(s) ==
    \E in \in MatrixInputs :
        LET total_credits_needed == in[2]
        IN  IF in[1] # 0
            THEN Begin(s, "create_scan_run", total_credits_needed)
            ELSE /\ sess[s].pc = "idle"
                 /\ sess' = [sess EXCEPT ![s] =
                               [@ EXCEPT !.pc = "scanrun", !.op = "create_scan_run"]]
                 /\ UNCHANGED <<now, org, usage, scan_runs, seed, granted, periodVars, queueVars, warnVars, jobVars, slotVars, creditVars, brandVars, storeVars>>

\* initialize_billing_period(org, db): writes and commits the organization
\* when the loaded object has no current_period_start
InitializeBillingPeriod(s) ==
    /\ sess[s].pc = "loaded"
    /\ IF sess[s].orgv.current_period_start = NoDate
       THEN LET start == Midnight(now)
                end == AddMonths(start, 1)
                written == [org EXCEPT !.billing_cycle_anchor = now.d,
                                       !.current_period_start = start,
                                       !.current_period_end = end]
            IN  /\ sess' = [sess EXCEPT ![s] =
                              [@ EXCEPT !.pc = "query",
                                        !.orgv.billing_cycle_anchor = now.d,
                                        !.orgv.current_period_start = start,
                                        !.orgv.current_period_end = end,
                                        !.wrote = (written # org)]]
                /\ org' = written
       ELSE /\ sess' = [sess EXCEPT ![s].pc = "query"]
            /\ UNCHANGED org
    /\ UNCHANGED <<now, usage, scan_runs, seed, granted, periodVars, queueVars, warnVars, jobVars, slotVars, creditVars, brandVars, storeVars>>

\* get_or_create_usage: the query, with_for_update() when lock_for_update
SelectUsage(s) ==
    LET ss == sess[s]
        p == get_billing_period(ss.orgv.billing_cycle_anchor, now)
        key == p.period_start
    IN  /\ ss.pc = "query"
        /\ IF HasRow(usage, key)
           THEN /\ Locking(ss.op) => ~RowLockedByOther(s, key)
                /\ sess' = [sess EXCEPT ![s] =
                              [@ EXCEPT !.pc = IF ss.op = "get_usage_summary"
                                               THEN "summary" ELSE "reserve",
                                        !.period = p,
                                        !.cur = CountersOf(RowOf(usage, key)),
                                        !.locked = Locking(ss.op)]]
           ELSE sess' = [sess EXCEPT ![s] = [@ EXCEPT !.pc = "insert", !.period = p]]
        /\ UNCHANGED <<now, org, usage, scan_runs, seed, granted, periodVars, queueVars, warnVars, jobVars, slotVars, creditVars, brandVars, storeVars>>

\* get_or_create_usage: db.add(usage); db.flush().  The INSERT waits for a
\* transaction that has inserted the same (org_id, period_start) and fails on
\* uq_usage_org_period when such a row is committed
InsertUsage(s) ==
    LET ss == sess[s]
        key == ss.period.period_start
    IN  /\ ss.pc = "insert"
        /\ ~InsertPendingByOther(s, key)
        /\ IF HasRow(usage, key)
           THEN sess' = [sess EXCEPT ![s] = Closed(ss, "error", ErrorResult)]
           ELSE sess' = [sess EXCEPT ![s] =
                           [@ EXCEPT !.pc = IF ss.op = "get_usage_summary"
                                            THEN "summary" ELSE "reserve",
                                     !.cur = NoCounters,
                                     !.pend = TRUE]]
        /\ UNCHANGED <<now, org, usage, scan_runs, seed, granted, periodVars, queueVars, warnVars, jobVars, slotVars, creditVars, brandVars, storeVars>>

\* assert_within_limit(...), then either the error (the session is closed and
\* its transaction rolled back) or the increment and db.commit()
Reserve(s) ==
    LET ss == sess[s]
        plan == get_plan(ss.orgv)
        limit == LimitOf(plan, ss.op)
        current == CheckedValue(ss.op, ss.cur, ss.amt)
        value == NewValue(ss.op, ss.cur, ss.amt)
    IN  /\ ss.pc = "reserve"
        /\ IF LimitExceeded(current, limit)
           THEN /\ sess' = [sess EXCEPT ![s] =
                              Closed(ss, "rejected", LimitError(current, limit, ResourceName(ss.op)))]
                /\ UNCHANGED <<usage, granted>>
           ELSE /\ ~RowLockedByOther(s, ss.period.period_start)
                /\ usage' = Committed(usage, ss, value)
                /\ granted' = [granted EXCEPT ![Column(ss.op)] = @ + (value - ss.cur[Column(ss.op)])]
                /\ sess' = [sess EXCEPT ![s] =
                              [@ EXCEPT !.pc = IF ss.op = "create_scan_run"
                                               THEN "scanrun" ELSE "refresh",
                                        !.pend = FALSE, !.locked = FALSE,
                                        !.wrote = TRUE]]
        /\ UNCHANGED <<now, org, scan_runs, seed, periodVars, queueVars, warnVars, jobVars, slotVars, creditVars, brandVars, storeVars>>

\* db.refresh(usage) and the return of require_scan_credit / require_page_slot
Refresh(s) ==
    LET ss == sess[s]
        row == RowOf(usage, ss.period.period_start)
        limit == LimitOf(get_plan(ss.orgv), ss.op)
    IN  /\ ss.pc = "refresh"
        /\ sess' = [sess EXCEPT ![s] = Closed(ss, "done", UsageInfo(row[Column(ss.op)], limit))]
        /\ UNCHANGED <<now, org, usage, scan_runs, seed, granted, periodVars, queueVars, warnVars, jobVars, slotVars, creditVars, brandVars, storeVars>>

\* get_usage_summary builds its result from the object get_or_create_usage
\* returned; the session is closed without a commit
Summarize(s) ==
    LET ss == sess[s]
        plan == get_plan(ss.orgv)
    IN  /\ ss.pc = "summary"
        /\ sess' = [sess EXCEPT ![s] =
                      Closed(ss, "done",
                             [UsageInfo(ss.cur.scans_used, plan.scans)
                                EXCEPT !.pages = ss.cur.ai_pages_generated])]
        /\ UNCHANGED <<now, org, usage, scan_runs, seed, granted, periodVars, queueVars, warnVars, jobVars, slotVars, creditVars, brandVars, storeVars>>

\* create_scan_run: db.add(scan_run); db.commit().  The enqueue_scan call
\* that follows reads the local idempotency_key before its assignment; the
\* UnboundLocalError is caught and logged, and the handler goes on.  Without
\* an Idempotency-Key the scan run is returned, with one the handler calls
\* store_idempotency_key(key, db, org_id, "scan", scan_run.id, response_dict, 201)
AddScanRun(s) ==
    LET ss == sess[s]
    IN  /\ ss.pc = "scanrun"
        /\ scan_runs' = scan_runs + 1
        /\ IF s \in DOMAIN req /\ ~Not(req[s].key)
           THEN /\ sess' = [sess EXCEPT ![s].pc = "store"]
                /\ req' = [req EXCEPT ![s].ran = TRUE]
                /\ call' = [call EXCEPT ![s] =
                              EnterStore(CallOf("store_idempotency_key", req[s].key, OrgId,
                                                "scan", scan_runs + 1, 201, ScanRunBody))]
           ELSE /\ sess' = [sess EXCEPT ![s] =
                              Closed(ss, "done", [NoResult EXCEPT !.status = "ok"])]
                /\ req' = IF s \in DOMAIN req THEN [req EXCEPT ![s].ran = TRUE] ELSE req
                /\ UNCHANGED call
        /\ enq' = IF s \in DOMAIN enq
                  THEN [enq EXCEPT ![s] =
                          [BlankEnqueue EXCEPT !.pc = "raised", !.fn = "enqueue_scan",
                                               !.arg = scan_runs + 1,
                                               !.out = [kind |-> "UnboundLocalError",
                                                        id |-> NoJobId]]]
                  ELSE enq
        /\ UNCHANGED <<now, org, usage, seed, granted, periodVars, redis, worker, warnVars,
                       jobVars, slotVars, creditVars, brandVars, clock, idem>>

\* the reservation dependencies and the usage summary
NextReserve ==
    \E s \in Sessions :
        \/ RequireScanCredit(s)
        \/ RequirePageSlot(s)
        \/ GetUsageSummary(s)
        \/ InitializeBillingPeriod(s)
        \/ SelectUsage(s)
        \/ InsertUsage(s)
        \/ Reserve(s)
        \/ Refresh(s)
        \/ Summarize(s)

\* all handlers that touch the usage ledger; the Reader only asks for the summary
Next ==
    \E s \in Sessions \cup {Reader} :
        \/ s # Reader /\ RequireScanCredit(s)
        \/ s # Reader /\ RequirePageSlot(s)
        \/ s # Reader /\ CreateScanRun(s)
        \/ GetUsageSummary(s)
        \/ InitializeBillingPeriod(s)
        \/ SelectUsage(s)
        \/ InsertUsage(s)
        \/ Reserve(s)
        \/ Refresh(s)
        \/ Summarize(s)
        \/ AddScanRun(s)

\* page-generation requests only
NextPages ==
    \E s \in 1..PageSessions :
        \/ RequirePageSlot(s)
        \/ InitializeBillingPeriod(s)
        \/ SelectUsage(s)
        \/ InsertUsage(s)
        \/ Reserve(s)
        \/ Refresh(s)

Spec == Init /\ [][Next]_vars

SpecReserve == InitReserve /\ [][NextReserve]_vars

SpecPages == InitPages /\ [][NextPages]_vars

(***************************************************************************)
(* The billing-period calculator applied to every anchor day and           *)
(* reference time of the calendar.                                         *)
(***************************************************************************)
IdleLedger ==
    /\ now = NoDate
    /\ org = NoOrg
    /\ usage = {}
    /\ scan_runs = 0
    /\ sess = [s \in Sessions |-> BlankSession]
    /\ seed = NoCounters
    /\ granted = [scans_used |-> 0, ai_pages_generated |-> 0]

InitPeriod ==
    /\ anchor_in \in AnchorDays
    /\ ref \in ReferenceDates
    /\ period = NoPeriod
    /\ ppc = "input"
    /\ IdleLedger
    /\ IdleStore /\ IdleQueue /\ IdleJobs /\ IdleSlots /\ IdleCredits /\ IdleWarn /\ IdleBrands

GetBillingPeriod ==
    /\ ppc = "input"
    /\ period' = get_billing_period(anchor_in, ref)
    /\ ppc' = "returned"
    /\ UNCHANGED <<anchor_in, ref>>
    /\ UNCHANGED <<ledgerVars, storeVars, queueVars, warnVars, jobVars, slotVars, creditVars, brandVars>>

NextPeriod == GetBillingPeriod

SpecPeriod == InitPeriod /\ [][NextPeriod]_vars


(***************************************************************************)
(* The idempotency store called directly: concurrent store calls and a     *)
(* Reader that looks a key up, each call in its own database session.      *)
(***************************************************************************)
TickHours == 12    \* the clock advances in steps of TickHours
MaxClock == 36     \* and stops at MaxClock

\* (org_id, resource_type) of the calls: one scope, the same resource type
\* under another organization, another resource type under the same one
Scopes == { <<7, "scan">>, <<8, "scan">>, <<7, "page">> }
\* (status_code, response_body) pairs a caller may want cached; response_body
\* is documented as the "JSON response to cache"
Responses == { <<201, JsonBody>>, <<200, EmptyBody>> }

StoreInputs ==
    { CallOf("store_idempotency_key", Key(MinKeyLen), sc[1], sc[2], 1, r[1], r[2]) :
        sc \in Scopes, r \in Responses }
    \cup { CallOf("store_idempotency_key", EmptyKey, 7, "scan", 1, 201, JsonBody) }

CheckInputs ==
    { CallOf("check_idempotency_key", k, sc[1], sc[2], 0, 0, EmptyBody) :
        k \in {Key(MinKeyLen), Key(MaxKeyLen)}, sc \in Scopes }
    \cup { CallOf("check_idempotency_key", k, 7, "scan", 0, 0, EmptyBody) :
             k \in {NoHeader, EmptyKey, Key(MinKeyLen - 1), Key(MaxKeyLen + 1)} }

\* a caller calls store_idempotency_key(key, db, org_id, resource_type, ...)
StoreIdempotencyKey(c) ==
    /\ call[c].pc = "idle"
    /\ \E in \in StoreInputs : call' = [call EXCEPT ![c] = EnterStore(in)]
    /\ UNCHANGED <<ledgerVars, periodVars, queueVars, warnVars, jobVars, slotVars, creditVars, brandVars, clock, idem, req>>

\* store_idempotency_key: the query for an existing entry of the scope
StoreQuery(c) ==
    LET cl == call[c]
    IN  /\ cl.pc = "query"
        /\ call' = [call EXCEPT ![c] =
                      IF ScopeRows(idem, cl.key, cl.org_id, cl.resource_type) # {}
                      THEN [cl EXCEPT !.pc = "returned",
                                      !.out = [NoOutcome EXCEPT !.kind = "no-op"]]
                      ELSE [cl EXCEPT !.pc = "insert"]]
        /\ UNCHANGED <<ledgerVars, periodVars, queueVars, warnVars, jobVars, slotVars, creditVars, brandVars, clock, idem, req>>

\* store_idempotency_key: IdempotencyKey(..., response_body=json.dumps(...)),
\* db.add(key_record), db.commit()
StoreInsert(c) ==
    LET cl == call[c]
    IN  /\ cl.pc = "insert"
        /\ IF JsonDumpsFails(cl.body)
           THEN /\ call' = [call EXCEPT ![c] =
                              [cl EXCEPT !.pc = "returned", !.out = Raises("TypeError")]]
                /\ UNCHANGED idem
           ELSE IF UniqueViolation(idem, cl.key)
           THEN /\ call' = [call EXCEPT ![c] =
                              [cl EXCEPT !.pc = "returned", !.out = Raises("IntegrityError")]]
                /\ UNCHANGED idem
           ELSE /\ idem' = idem \cup { IdempotencyKey(cl.key, cl.org_id, cl.resource_type,
                                                      cl.resource_id, JsonDumps(cl.body),
                                                      cl.status_code, clock) }
                /\ call' = [call EXCEPT ![c] =
                              [cl EXCEPT !.pc = "returned",
                                         !.out = [NoOutcome EXCEPT !.kind = "stored"]]]
        /\ UNCHANGED <<ledgerVars, periodVars, queueVars, warnVars, jobVars, slotVars, creditVars, brandVars, clock, req>>

\* a caller calls check_idempotency_key(request, db, org_id, resource_type)
CheckIdempotencyKey(c) ==
    /\ call[c].pc = "idle"
    /\ \E in \in CheckInputs : call' = [call EXCEPT ![c] = EnterCheck(in, idem, clock)]
    /\ UNCHANGED <<ledgerVars, periodVars, queueVars, warnVars, jobVars, slotVars, creditVars, brandVars, clock, idem, req>>

\* time passes
Tick ==
    /\ clock + TickHours <= MaxClock
    /\ clock' = clock + TickHours
    /\ UNCHANGED <<ledgerVars, periodVars, queueVars, warnVars, jobVars, slotVars, creditVars, brandVars, idem, call, req>>

InitStore == IdleLedger /\ IdlePeriod /\ IdleStore /\ IdleQueue /\ IdleJobs /\ IdleSlots /\ IdleCredits /\ IdleWarn /\ IdleBrands

\* concurrent stores and lookups within the lifetime of the entries
NextStore ==
    \E c \in Sessions \cup {Reader} :
        \/ c # Reader /\ StoreIdempotencyKey(c)
        \/ StoreQuery(c)
        \/ StoreInsert(c)
        \/ c = Reader /\ CheckIdempotencyKey(c)

SpecStore == InitStore /\ [][NextStore]_vars

\* one store, lookups, and the clock
ExpiryCallers == {1, Reader}

NextExpiry ==
    \/ Tick
    \/ \E c \in ExpiryCallers :
        \/ c # Reader /\ StoreIdempotencyKey(c)
        \/ StoreQuery(c)
        \/ StoreInsert(c)
        \/ c = Reader /\ CheckIdempotencyKey(c)

SpecExpiry == InitStore /\ [][NextExpiry]_vars


(***************************************************************************)
(* create_scan_run with an Idempotency-Key header: the lookup, the         *)
(* reservation, the scan run, and the store of the response.               *)
(***************************************************************************)
\* header values of the requests: none, the empty string, keys at both sides
\* of the lower bound, a key above the upper bound
RequestKeys == { NoHeader, EmptyKey, Key(MinKeyLen - 1), Key(MinKeyLen), Key(MaxKeyLen + 1) }

\* the request is received: brand and membership are read, nothing is written
ReceiveScanRun(s) ==
    /\ sess[s].pc = "idle"
    /\ \E key \in RequestKeys, in \in MatrixInputs :
         /\ sess' = [sess EXCEPT ![s] =
                       [@ EXCEPT !.pc = "lookup", !.op = "create_scan_run", !.amt = in[2]]]
         /\ req' = [req EXCEPT ![s] =
                      [key |-> key,
                       retry |-> /\ ~Not(key)
                                 /\ key.len >= MinKeyLen /\ key.len <= MaxKeyLen
                                 /\ \E t \in Sessions \ {s} :
                                      /\ Finished(t) /\ req[t].ran
                                      /\ req[t].key = key /\ sess[t].amt = in[2],
                       ran |-> FALSE]]
    /\ UNCHANGED <<now, org, usage, scan_runs, seed, granted, periodVars, queueVars, warnVars, jobVars, slotVars, creditVars, brandVars, clock, idem, call>>

\* cached_response = check_idempotency_key(request, db, brand.org_id, "scan"):
\* the 400 error, the cached body, or on to the reservation (the organization
\* is loaded when the matrix is not empty)
LookupResponse(s) ==
    LET ss == sess[s]
        out == check_idempotency_key(idem, clock, req[s].key, OrgId, "scan")
    IN  /\ ss.pc = "lookup"
        /\ sess' = [sess EXCEPT ![s] =
                      IF out.kind = "HTTP 400"
                      THEN Closed(ss, "invalid", [NoResult EXCEPT !.status = "bad_request"])
                      ELSE IF out.kind = "cached"
                      THEN Closed(ss, "done", [NoResult EXCEPT !.status = "cached"])
                      ELSE IF ss.amt = 0
                      THEN [ss EXCEPT !.pc = "scanrun"]
                      ELSE [ss EXCEPT !.pc = "loaded", !.orgv = org]]
        /\ UNCHANGED <<now, org, usage, scan_runs, seed, granted, periodVars, queueVars, warnVars, jobVars, slotVars, creditVars, brandVars, storeVars>>

\* store_idempotency_key has returned or raised: the scan run is returned, or
\* the exception leaves the handler as an internal server error
ReturnScanRun(s) ==
    LET ss == sess[s]
    IN  /\ ss.pc = "store"
        /\ call[s].pc = "returned"
        /\ sess' = [sess EXCEPT ![s] =
                      IF call[s].out.kind \in {"TypeError", "IntegrityError"}
                      THEN Closed(ss, "error", ErrorResult)
                      ELSE Closed(ss, "done", [NoResult EXCEPT !.status = "ok"])]
        /\ UNCHANGED <<now, org, usage, scan_runs, seed, granted, periodVars, queueVars, warnVars, jobVars, slotVars, creditVars, brandVars, storeVars>>

\* an organization on the starter plan that has used the service
InitRetry ==
    /\ InitLedger(Sessions)
    /\ org.plan_tier = "starter"
    /\ org.current_period_start # NoDate
    /\ IdlePeriod
    /\ IdleStore /\ IdleQueue /\ IdleJobs /\ IdleSlots /\ IdleCredits /\ IdleWarn /\ IdleBrands

NextRetry ==
    \E s \in Sessions :
        \/ ReceiveScanRun(s)
        \/ LookupResponse(s)
        \/ InitializeBillingPeriod(s)
        \/ SelectUsage(s)
        \/ InsertUsage(s)
        \/ Reserve(s)
        \/ AddScanRun(s)
        \/ StoreQuery(s)
        \/ StoreInsert(s)
        \/ ReturnScanRun(s)

SpecRetry == InitRetry /\ [][NextRetry]_vars


(***************************************************************************)
(* The job queue of the API: JobQueueService.enqueue_scan and              *)
(* enqueue_page_generation over Redis. A call is three Redis commands:     *)
(* EXISTS on the marker, the enqueue of the job, SETEX of the marker.      *)
(***************************************************************************)
MarkerTTL == 24     \* ttl = 86400 seconds, in hours of the clock

\* f"scan:{scan_run_id}" and f"page_gen:{page_id}", and a key a caller passes
DefaultKey(fn, arg) == IF fn = "enqueue_scan" THEN <<"scan:", arg>> ELSE <<"page_gen:", arg>>
CustomKey == <<"import-2024-", 1>>

\* Queue("scans") and Queue("pages")
QueueOf(fn) == IF fn = "enqueue_scan" THEN "scans" ELSE "pages"

\* the function named in queue.enqueue
FuncOf(fn) ==
    IF fn = "enqueue_scan"
    THEN "app.jobs.scan_executor.execute_scan_run"
    ELSE "app.jobs.page_generator_job.generate_page_content"

\* redis_key = f"idempotency:{idempotency_key}"
RedisKey(idempotency_key) == <<"idempotency:", idempotency_key>>

\* hashlib.sha256(idempotency_key.encode()).hexdigest()[:16]: a function of
\* the key alone (two keys of the model never share a digest prefix)
_generate_job_id(idempotency_key) == <<"sha256[:16]", idempotency_key>>

\* the marker of a key that Redis has not yet expired
LiveMarkers(r, t, idempotency_key) ==
    { mk \in r.markers : mk.redis_key = RedisKey(idempotency_key) /\ t < mk.expires_at }

\* the mutant: a marker is found whether or not its time to live has passed
check_without_ttl(r, t, idempotency_key) ==
    \E mk \in r.markers : mk.redis_key = RedisKey(idempotency_key)

\* self.redis.exists(redis_key) > 0
_check_idempotency(r, t, idempotency_key) == LiveMarkers(r, t, idempotency_key) # {}

\* the mutant: the marker is not written
store_nothing(r, t, idempotency_key, job_id) == r

\* self.redis.setex(redis_key, ttl, job_id): the value and the time to live of
\* the key are replaced
_store_idempotency(r, t, idempotency_key, job_id) ==
    [r EXCEPT !.markers =
        { mk \in @ : mk.redis_key # RedisKey(idempotency_key) }
        \cup { [redis_key |-> RedisKey(idempotency_key), value |-> job_id,
                expires_at |-> t + MarkerTTL] }]

\* the job hash rq saves: id, function, arguments and meta with retry_count 0;
\* rq sets the status of an enqueued job to "queued"
JobHash(cl) ==
    [id |-> _generate_job_id(cl.idempotency_key), func |-> FuncOf(cl.fn), args |-> cl.arg,
     origin |-> QueueOf(cl.fn), status |-> "queued",
     meta |-> [idempotency_key |-> cl.idempotency_key, request_id |-> cl.request_id,
               retry_count |-> 0]]

\* queue.enqueue(..., job_id=...): rq saves the job hash under its id, replacing
\* a hash of the same id, and pushes the id onto the list of the queue
QueueEnqueue(r, job) ==
    [r EXCEPT !.jobs = { j \in @ : j.id # job.id } \cup { job },
              !.queued[job.origin] = Append(@, job.id)]

\* the arguments of the calls: the service method, the id of the scan run or
\* page, and the idempotency key (None, or a key of the caller's choice)
EnqueueInputs ==
    { <<"enqueue_scan", 1, NoKey>>, <<"enqueue_scan", 2, NoKey>>,
      <<"enqueue_scan", 2, CustomKey>>,
      <<"enqueue_page_generation", 1, CustomKey>>, <<"enqueue_page_generation", 1, NoKey>> }

\* the service method is entered: "if idempotency_key is None" picks the default
\* key. prior: the calls that had returned before this one began
CallEnqueue(c) ==
    /\ enq[c].pc = "idle"
    /\ \E in \in EnqueueInputs :
         enq' = [enq EXCEPT ![c] =
                   [@ EXCEPT !.pc = "check", !.fn = in[1], !.arg = in[2], !.request_id = c,
                             !.idempotency_key =
                                 IF in[3] = NoKey THEN DefaultKey(in[1], in[2]) ELSE in[3],
                             !.prior = { d \in Sessions : enq[d].pc = "returned" }]]
    /\ UNCHANGED <<ledgerVars, periodVars, storeVars, redis, worker, warnVars, jobVars, slotVars, creditVars, brandVars>>

\* if self._check_idempotency(idempotency_key): return None
CheckMarker(c) ==
    LET cl == enq[c]
        dup == _check_idempotency(redis, clock, cl.idempotency_key)
        row == { mk \in redis.markers : mk.redis_key = RedisKey(cl.idempotency_key) }
    IN  /\ cl.pc = "check"
        /\ enq' = [enq EXCEPT ![c] =
                     [@ EXCEPT !.pc = IF dup THEN "returned" ELSE "enqueue",
                               !.out = IF dup THEN [kind |-> "None", id |-> NoJobId] ELSE @,
                               !.checked_at = clock,
                               !.marker = IF row = {} THEN "absent"
                                          ELSE IF \A mk \in row : clock >= mk.expires_at
                                          THEN "expired" ELSE "live"]]
        /\ UNCHANGED <<ledgerVars, periodVars, storeVars, redis, worker, warnVars, jobVars, slotVars, creditVars, brandVars>>

\* job = queue.enqueue(...)
EnqueueJob(c) ==
    LET cl == enq[c]
    IN  /\ cl.pc = "enqueue"
        /\ redis' = QueueEnqueue(redis, JobHash(cl))
        /\ enq' = [enq EXCEPT ![c] = [@ EXCEPT !.pc = "store", !.pushed = TRUE]]
        /\ UNCHANGED <<ledgerVars, periodVars, storeVars, worker, warnVars, jobVars, slotVars, creditVars, brandVars>>

\* self._store_idempotency(idempotency_key, job.id); return job
StoreMarker(c) ==
    LET cl == enq[c]
        id == _generate_job_id(cl.idempotency_key)
    IN  /\ cl.pc = "store"
        /\ redis' = _store_idempotency(redis, clock, cl.idempotency_key, id)
        /\ enq' = [enq EXCEPT ![c] =
                     [@ EXCEPT !.pc = "returned", !.out = [kind |-> "Job", id |-> id],
                               !.stored_at = clock]]
        /\ UNCHANGED <<ledgerVars, periodVars, storeVars, worker, warnVars, jobVars, slotVars, creditVars, brandVars>>

InitQueue == IdleLedger /\ IdlePeriod /\ IdleStore /\ IdleQueue /\ IdleJobs /\ IdleSlots /\ IdleCredits /\ IdleWarn /\ IdleBrands

NextQueue ==
    \/ Tick
    \/ \E c \in Sessions :
         \/ CallEnqueue(c)
         \/ CheckMarker(c)
         \/ EnqueueJob(c)
         \/ StoreMarker(c)

SpecQueue == InitQueue /\ [][NextQueue]_vars


(***************************************************************************)
(* The worker: apps/worker/app/main.py is the entry point of the process   *)
(* that is to take jobs from the queues "scans", "pages" and "default".    *)
(***************************************************************************)
MAX_RETRIES == 3

\* python app/main.py. The module does not compile: the call of dlq.enqueue in
\* job_failure_callback passes the keyword job_id twice (lines 104 and 113),
\* "SyntaxError: keyword argument repeated: job_id". The process ends before
\* main() is entered: no signal handler is installed, no queue is listened
\* on, no job is taken, and job_failure_callback and the dead-letter queue
\* "failed" (on which no worker listens either) are never used.
StartWorker ==
    /\ worker = "off"
    /\ worker' = "SyntaxError"
    /\ UNCHANGED <<ledgerVars, periodVars, storeVars, redis, enq, warnVars, jobVars, slotVars, creditVars, brandVars>>

\* the API enqueues jobs while the worker process is started; every process
\* that can take a step eventually takes it
NextWorker ==
    \/ StartWorker
    \/ \E c \in Sessions :
         \/ CallEnqueue(c)
         \/ CheckMarker(c)
         \/ EnqueueJob(c)
         \/ StoreMarker(c)

SpecWorker == InitQueue /\ [][NextWorker]_vars /\ WF_vars(NextWorker)


(***************************************************************************)
(* check_warning (app/services/quotas.py).  Python's current / limit is    *)
(* the correctly rounded double of the exact quotient; for counters and    *)
(* limits below 2^53 it compares with the double 0.80 as the exact         *)
(* quotient compares with 4/5, so the quotient is kept as a fraction.      *)
(***************************************************************************)
MaxUsed == 20      \* current ranges over 0..MaxUsed
MaxLimit == 15     \* finite limits range up to MaxLimit

WARN_THRESHOLD == [num |-> 80, den |-> 100]     \* 0.80

\* a / b for b # 0
TrueDiv(a, b) == [num |-> a, den |-> b]

\* x >= y for two fractions
FracGE(x, y) ==
    IF (x.den > 0) = (y.den > 0)
    THEN x.num * y.den >= y.num * x.den
    ELSE x.num * y.den <= y.num * x.den

\* the mutant: the flag is raised only above the threshold
check_warning_above(current, limit) ==
    IF limit = None THEN FALSE
    ELSE IF limit = 0 THEN FALSE
    ELSE FracGE(TrueDiv(current, limit), WARN_THRESHOLD)
         /\ ~FracGE(WARN_THRESHOLD, TrueDiv(current, limit))

check_warning(current, limit) ==
    IF limit = None THEN FALSE
    ELSE IF limit = 0 THEN FALSE
    ELSE FracGE(TrueDiv(current, limit), WARN_THRESHOLD)

\* limits: unlimited, zero, positive, and (never a plan's) negative
LimitInputs == {None, -3, -2} \cup (0..MaxLimit)

InitWarn ==
    /\ IdleLedger /\ IdlePeriod /\ IdleStore /\ IdleQueue /\ IdleJobs /\ IdleSlots /\ IdleCredits /\ IdleBrands
    /\ \E current \in 0..MaxUsed, limit \in LimitInputs :
         warn = [pc |-> "input", current |-> current, limit |-> limit, out |-> FALSE]

CheckWarning ==
    /\ warn.pc = "input"
    /\ warn' = [warn EXCEPT !.pc = "returned", !.out = check_warning(warn.current, warn.limit)]
    /\ UNCHANGED <<ledgerVars, periodVars, storeVars, queueVars, brandVars, jobVars, slotVars, creditVars>>

NextWarn == CheckWarning

SpecWarn == InitWarn /\ [][NextWarn]_vars


(***************************************************************************)
(* list_brands (app/api/v1/endpoints/brands.py) and the cursors of         *)
(* app/schemas/pagination.py.  A cursor is a Python value with its type:   *)
(* None, the base64 text of a JSON document, or the dict read from it.     *)
(***************************************************************************)
MaxBrands == 4       \* brands of the organization
MaxPageLimit == 2    \* the limit parameter ranges over 1..MaxPageLimit
MaxPages == 5        \* requests one client sends
CreatedAts == {1, 2} \* Brand.created_at; two brands can share a timestamp

\* encode_cursor(last_id, last_created_at): base64 of the JSON document
\* {"id": ..., "created_at": ...}
encode_cursor(last_id, last_created_at) ==
    [t |-> "str", id |-> last_id, created_at |-> last_created_at]

\* PaginationParams.validate_cursor: None stays None; a cursor text is
\* decoded, and the dict read from it becomes the value of field cursor
validate_cursor(v) ==
    IF v.t = "NoneType" THEN NoCursor ELSE [v EXCEPT !.t = "dict"]

\* the mutant: a decode that also accepts the dict validate_cursor has made
decode_cursor_or_dict(cursor) ==
    IF cursor.t = "NoneType" THEN NoCursor ELSE [cursor EXCEPT !.t = "dict"]

\* decode_cursor(cursor): None for a missing cursor; base64.b64decode of a
\* value that is no str or bytes raises TypeError, which is caught: None
decode_cursor(cursor) ==
    IF cursor.t = "NoneType" THEN NoCursor
    ELSE IF cursor.t = "str" THEN [cursor EXCEPT !.t = "dict"]
    ELSE NoCursor

\* ORDER BY created_at DESC, id DESC
ListedBefore(a, b) == a.created_at > b.created_at \/ (a.created_at = b.created_at /\ a.id > b.id)

RECURSIVE Ordered(_)
Ordered(rows) ==
    IF rows = {} THEN <<>>
    ELSE LET first == CHOOSE a \in rows : \A b \in rows \ {a} : ListedBefore(a, b)
         IN  <<first>> \o Ordered(rows \ {first})

\* the rows after the cursor: created_at < c or (created_at = c and id < cursor_id)
AfterCursor(rows, cursor_data) ==
    IF cursor_data.t = "dict" /\ cursor_data.id # 0
    THEN { r \in rows : \/ r.created_at < cursor_data.created_at
                        \/ r.created_at = cursor_data.created_at /\ r.id < cursor_data.id }
    ELSE rows

Prefix(seq, n) == SubSeq(seq, 1, IF Len(seq) < n THEN Len(seq) ELSE n)

\* the response of one request: items, next_cursor, has_more
list_brands(rows, limit, cursor) ==
    LET pagination == [limit |-> limit, cursor |-> validate_cursor(cursor)]
        cursor_data == decode_cursor(pagination.cursor)
        fetched == Prefix(Ordered(AfterCursor(rows, cursor_data)), limit + 1)
        has_more == Len(fetched) > limit
        items == IF has_more THEN Prefix(fetched, limit) ELSE fetched
    IN  [items |-> items,
         next_cursor |-> IF has_more /\ items # <<>>
                         THEN encode_cursor(items[Len(items)].id, items[Len(items)].created_at)
                         ELSE NoCursor,
         has_more |-> has_more]

\* the brands of the organization, ids 1..n with any timestamps, and a client
\* about to request the first page with a fixed limit
InitBrands ==
    /\ IdleLedger /\ IdlePeriod /\ IdleStore /\ IdleQueue /\ IdleJobs /\ IdleSlots /\ IdleCredits /\ IdleWarn
    /\ \E n \in 0..MaxBrands :
         \E at \in [1..n -> CreatedAts] :
           brands = { [id |-> i, created_at |-> at[i]] : i \in 1..n }
    /\ \E limit \in 1..MaxPageLimit :
         walk = [pc |-> "next", limit |-> limit, cursor |-> NoCursor, seen |-> <<>>, pages |-> 0]

\* GET /v1/brands?org_id=..&limit=..&cursor=..: the client keeps the items and
\* follows next_cursor until has_more is false
ListBrands ==
    LET page == list_brands(brands, walk.limit, walk.cursor)
    IN  /\ walk.pc = "next"
        /\ walk.pages < MaxPages
        /\ walk' = [walk EXCEPT !.pc = IF page.has_more THEN "next" ELSE "done",
                                !.cursor = page.next_cursor,
                                !.seen = @ \o [i \in 1..Len(page.items) |-> page.items[i].id],
                                !.pages = @ + 1]
        /\ UNCHANGED <<ledgerVars, periodVars, storeVars, queueVars, warnVars, jobVars, slotVars, creditVars, brands>>

NextBrands == ListBrands

SpecBrands == InitBrands /\ [][NextBrands]_vars


(***************************************************************************)
(* The scan executor (apps/worker/app/jobs/scan_executor.py) called for    *)
(* one stored scan run.  Rows of table scan_results are kept in the order  *)
(* of their ids; the mentions of a result are kept as their number.        *)
(***************************************************************************)
NumPrompts == 2     \* prompt items of the prompt set of the scan run
MaxMentions == 1    \* most mentions the extractor finds in one response
MaxRuns == 2        \* executions of the job for the one scan run

\* model_matrix_json of the stored scan run
ScanMatrices ==
    { models \in ModelLists : \A i \in DOMAIN models : models[i] \in { "gpt-4", "gemini" } }

\* the inner "except Exception: continue": no row is saved for the prompt
Skipped == -1

\* what the provider and the extractor do in one execution: for each model
\* and prompt item in loop order, an exception or the number of mentions found
Outcomes(models) == [1..(Len(models) * NumPrompts) -> {Skipped} \cup (0..MaxMentions)]

\* execute_scan_run_async: the rows of scan_results after the two loops;
\* db.add(scan_result) for every prompt that did not raise, nothing is deleted
execute_scan_run(rows, models, outcome) ==
    LET attempted ==
            [j \in 1..(Len(models) * NumPrompts) |->
                [model_name |-> models[((j - 1) \div NumPrompts) + 1],
                 prompt_text |-> ((j - 1) % NumPrompts) + 1,
                 mentions |-> outcome[j]]]
    IN  rows \o SelectSeq(attempted, LAMBDA r : r.mentions # Skipped)

\* create_scan_run has committed the scan run with status QUEUED
StoreScanRun ==
    /\ exec.pc = "off"
    /\ \E models \in ScanMatrices :
           exec' = [exec EXCEPT !.pc = "stored", !.models = models, !.status = "queued"]
    /\ UNCHANGED <<ledgerVars, periodVars, storeVars, queueVars, warnVars, brandVars,
                   slotVars, creditVars>>

\* execute_scan_run(scan_run_id) from RUNNING to DONE; `once` keeps the table
\* as the first execution left it
ExecuteScanRun ==
    /\ exec.pc = "stored"
    /\ exec.runs < MaxRuns
    /\ \E outcome \in Outcomes(exec.models) :
           LET rows == execute_scan_run(exec.scan_results, exec.models, outcome)
           IN  exec' = [exec EXCEPT !.status = "done", !.runs = @ + 1,
                                    !.scan_results = rows,
                                    !.once = IF exec.runs = 0 THEN rows ELSE @]
    /\ UNCHANGED <<ledgerVars, periodVars, storeVars, queueVars, warnVars, brandVars,
                   slotVars, creditVars>>

InitExec ==
    /\ IdleLedger /\ IdlePeriod /\ IdleStore /\ IdleQueue /\ IdleWarn /\ IdleBrands
    /\ IdleJobs /\ IdleSlots /\ IdleCredits

NextExec == StoreScanRun \/ ExecuteScanRun

SpecExec == InitExec /\ [][NextExec]_vars


(***************************************************************************)
(* The idempotency store with its sweep: stores before and after the       *)
(* expiry of an entry, lookups, and cleanup_expired_keys run as a          *)
(* background job.                                                         *)
(***************************************************************************)
\* batch_size of a sweep: one row, and the default
BatchSizes == { 1, 1000 }

\* cleanup_expired_keys: db.query(...).filter(...).limit(batch_size).delete(...).
\* Query.delete() refuses a query that carries a LIMIT ("Can't call
\* Query.update() or Query.delete() when limit() has been called"), so the
\* call raises before any statement is sent; db.commit() and the return are
\* not reached
cleanup_expired_keys(rows, t, batch_size) ==
    [rows |-> rows, out |-> Raises("InvalidRequestError")]

\* the background job calls cleanup_expired_keys(db, batch_size)
CleanupExpiredKeys(c) ==
    /\ call[c].pc = "idle"
    /\ \E batch_size \in BatchSizes :
           LET done == cleanup_expired_keys(idem, clock, batch_size)
           IN  /\ idem' = done.rows
               /\ call' = [call EXCEPT ![c] =
                             [BlankCall EXCEPT !.pc = "returned", !.fn = "cleanup_expired_keys",
                                               !.batch_size = batch_size, !.out = done.out]]
    /\ UNCHANGED <<ledgerVars, periodVars, queueVars, warnVars, jobVars, slotVars,
                   creditVars, brandVars, clock, req>>

NextSweep ==
    \/ Tick
    \/ \E c \in Sessions \cup {Reader} :
        \/ c # Reader /\ StoreIdempotencyKey(c)
        \/ StoreQuery(c)
        \/ StoreInsert(c)
        \/ c = Reader /\ CheckIdempotencyKey(c)
        \/ c # Reader /\ CleanupExpiredKeys(c)

SpecSweep == InitStore /\ [][NextSweep]_vars


(***************************************************************************)
(* Count-based quotas: create_brand (endpoints/brands.py) and              *)
(* invite_member (endpoints/orgs.py) of one organization, each request in  *)
(* its own database session.  The quota is a count of the committed rows    *)
(* followed, in a later statement, by the INSERT of the new row.           *)
(***************************************************************************)
\* the column of PLAN_QUOTAS a handler checks
SlotOf(op) == IF op = "create_brand" THEN "brands" ELSE "seats"

\* whom invite_data.email names: a user who is not a member of the
\* organization, a user who is, or nobody
Invitees == { "user", "member", "nobody" }

\* the organizations of SpecSlots: a plan and row counts within its limits,
\* the inviting admin being a member
SlotSeeds ==
    { [plan_tier |-> t, brands |-> b, seats |-> m] :
        t \in { "starter", "pro", "enterprise" }, b \in 0..3, m \in 1..10 }

\* require_brand_slot / check_seats_available: the organization, its plan,
\* the count of committed rows, assert_within_limit(current, limit, ...)
RequireSlot(s, op) ==
    /\ gate[s].pc = "idle"
    /\ LET current == counts[SlotOf(op)]
           limit == get_plan(counts)[SlotOf(op)]
       IN  gate' = [gate EXCEPT ![s] =
                      IF LimitExceeded(current, limit)
                      THEN [pc |-> "done", op |-> op, current |-> current, res |-> "HTTP 429"]
                      ELSE [pc |-> "counted", op |-> op, current |-> current, res |-> "none"]]
    /\ UNCHANGED <<ledgerVars, periodVars, storeVars, queueVars, warnVars, brandVars,
                   jobVars, creditVars, counts>>

\* create_brand: db.add(brand), db.commit()
AddBrand(s) ==
    /\ gate[s].pc = "counted"
    /\ gate[s].op = "create_brand"
    /\ counts' = [counts EXCEPT !.brands = @ + 1]
    /\ gate' = [gate EXCEPT ![s] = [@ EXCEPT !.pc = "done", !.res = "HTTP 201"]]
    /\ UNCHANGED <<ledgerVars, periodVars, storeVars, queueVars, warnVars, brandVars,
                   jobVars, creditVars>>

\* invite_member after the seat check: the user of invite_data.email is
\* looked up; an unknown email is a 404, a member a 409, any other user is
\* added with db.add(new_member), db.commit()
AddMember(s) ==
    /\ gate[s].pc = "counted"
    /\ gate[s].op = "invite_member"
    /\ \E who \in Invitees :
           /\ counts' = [counts EXCEPT !.seats = IF who = "user" THEN @ + 1 ELSE @]
           /\ gate' = [gate EXCEPT ![s] =
                         [@ EXCEPT !.pc = "done",
                                   !.res = CASE who = "user" -> "HTTP 201"
                                             [] who = "member" -> "HTTP 409"
                                             [] OTHER -> "HTTP 404"]]
    /\ UNCHANGED <<ledgerVars, periodVars, storeVars, queueVars, warnVars, brandVars,
                   jobVars, creditVars>>

InitSlots ==
    /\ IdleLedger /\ IdlePeriod /\ IdleStore /\ IdleQueue /\ IdleWarn /\ IdleBrands
    /\ IdleJobs /\ IdleCredits
    /\ counts \in { o \in SlotSeeds :
                      /\ get_plan(o).brands # None => o.brands <= get_plan(o).brands
                      /\ get_plan(o).seats # None => o.seats <= get_plan(o).seats }
    /\ gate = [s \in Sessions |-> BlankGate]

NextSlots ==
    \E s \in Sessions :
        \/ RequireSlot(s, "create_brand")
        \/ RequireSlot(s, "invite_member")
        \/ AddBrand(s)
        \/ AddMember(s)

SpecSlots == InitSlots /\ [][NextSlots]_vars


(***************************************************************************)
(* The job queue with a Redis that can become unreachable: any command of  *)
(* a call (EXISTS, rq's enqueue transaction, SETEX) may raise              *)
(* redis.exceptions.ConnectionError, which enqueue_scan and                *)
(* enqueue_page_generation do not catch.                                   *)
(***************************************************************************)
\* the command the call is about to send raises; what earlier commands of
\* the call wrote stays written
RedisFails(c) ==
    /\ enq[c].pc \in {"check", "enqueue", "store"}
    /\ enq' = [enq EXCEPT ![c] =
                 [@ EXCEPT !.pc = "returned",
                           !.out = [kind |-> "ConnectionError", id |-> NoJobId]]]
    /\ UNCHANGED <<ledgerVars, periodVars, storeVars, redis, worker, warnVars, jobVars,
                   slotVars, creditVars, brandVars>>

NextOutage ==
    \/ Tick
    \/ \E c \in Sessions :
         \/ CallEnqueue(c)
         \/ CheckMarker(c)
         \/ EnqueueJob(c)
         \/ StoreMarker(c)
         \/ RedisFails(c)

SpecOutage == InitQueue /\ [][NextOutage]_vars


(***************************************************************************)
(* The scan credits of a model list, computed the two ways the API         *)
(* computes them: create_scan_run's loop over scan_data.models and         *)
(* require_scan_credit's weight of each model.                             *)
(***************************************************************************)
\* the sum over the list of what require_scan_credit charges for a model
RECURSIVE WeightedCredits(_)
WeightedCredits(models) ==
    IF models = <<>> THEN 0
    ELSE CreditsNeeded(Head(models)) + WeightedCredits(Tail(models))

\* a request body arrives: it is validated, and a valid list is priced by
\* create_scan_run (reserved) and by require_scan_credit per model (charged)
PriceScanRun ==
    /\ quote.pc = "received"
    /\ quote' = IF validate_models(quote.models)
                THEN [quote EXCEPT !.pc = "priced",
                                   !.reserved = TotalCreditsNeeded(quote.models),
                                   !.charged = WeightedCredits(quote.models)]
                ELSE [quote EXCEPT !.pc = "HTTP 422"]
    /\ UNCHANGED <<ledgerVars, periodVars, storeVars, queueVars, warnVars, brandVars,
                   jobVars, slotVars>>

InitCredits ==
    /\ IdleLedger /\ IdlePeriod /\ IdleStore /\ IdleQueue /\ IdleWarn /\ IdleBrands
    /\ IdleJobs /\ IdleSlots
    /\ \E models \in RawModelLists :
           quote = [pc |-> "received", models |-> models, reserved |-> 0, charged |-> 0]

NextCredits == PriceScanRun

SpecCredits == InitCredits /\ [][NextCredits]_vars


(***************************************************************************)
(* Claims.                                                                 *)
(***************************************************************************)
Limits == get_plan(org)
CurrentKey == get_billing_period(org.billing_cycle_anchor, now).period_start
\* the committed counters of the current period, zero while it has no row
Ledger == IF HasRow(usage, CurrentKey) THEN CountersOf(RowOf(usage, CurrentKey)) ELSE NoCounters

\* C1: under concurrent require_scan_credit / require_page_slot calls the
\* initial counter plus the amounts of the successful calls never exceeds a
\* finite plan limit, and no committed counter does
C1_NeverOverLimit ==
    /\ Limits.scans # None =>
         /\ seed.scans_used + granted.scans_used <= Limits.scans
         /\ \A r \in usage : r.scans_used <= Limits.scans
    /\ Limits.ai_pages # None =>
         /\ seed.ai_pages_generated + granted.ai_pages_generated <= Limits.ai_pages
         /\ \A r \in usage : r.ai_pages_generated <= Limits.ai_pages

\* two concurrent page reservations met the last free slot: one was granted
\* it, the other was rejected
C1_Witness ==
    /\ Limits.ai_pages # None
    /\ seed.ai_pages_generated = Limits.ai_pages - 1
    /\ \E s, t \in Sessions :
         /\ sess[s].op = "require_page_slot" /\ sess[s].res.status = "ok"
         /\ sess[t].op = "require_page_slot" /\ sess[t].res.status = "rejected"
    /\ Ledger.ai_pages_generated = Limits.ai_pages


\* C2: under concurrent create_scan_run requests scans_used never exceeds the
\* scan limit, and the requests that reserved credits never reserved more in
\* total than the limit left
C2_NoCombinedOverspend ==
    (/\ \A s \in DOMAIN sess : sess[s].op \in {"none", "create_scan_run"}
     /\ Limits.scans # None)
    => /\ \A r \in usage : r.scans_used <= Limits.scans
       /\ seed.scans_used + granted.scans_used <= Limits.scans

\* C3: limit 1000, ledger at 999, concurrent 1-credit require_scan_credit
\* calls: once all have returned, exactly one succeeded and reported
\* used = 1000, the others were rejected, and the ledger is at 1000
C3_ExactlyOneAtLastCredit ==
    (/\ Limits.scans = 1000
     /\ seed.scans_used = 999
     /\ \A s \in DOMAIN sess :
          Finished(s) /\ sess[s].op = "require_scan_credit" /\ sess[s].amt = 1)
    => /\ Cardinality({ s \in DOMAIN sess : sess[s].res.status = "ok" }) = 1
       /\ \A s \in DOMAIN sess :
            /\ sess[s].res.status \in {"ok", "rejected"}
            /\ sess[s].res.status = "ok" => sess[s].res.used = 1000
       /\ Ledger.scans_used = 1000

\* C4: with a finite limit, a require_scan_credit / require_page_slot call
\* that has read the counter at c succeeds exactly when c + amount <= limit
C4_GrantedIffFits ==
    [][\A s \in DOMAIN sess :
         LET ss == sess[s]
             limit == LimitOf(get_plan(ss.orgv), ss.op)
             c == ss.cur[Column(ss.op)]
         IN  (ss.pc = "reserve" /\ sess'[s].pc # "reserve" /\ limit # None)
             => ((sess'[s].pc # "rejected") <=> (c + ss.amt <= limit))]_vars

\* C5: a get_usage_summary that reads the ledger after every other request
\* has returned reports the initial counters plus the amounts of the
\* successful reservations (Summarize returns what this step read)
C5_SummaryIsSeedPlusGranted ==
    [][\A s \in DOMAIN sess :
         (/\ sess[s].op = "get_usage_summary"
          /\ sess[s].pc \in {"query", "insert"}
          /\ sess'[s].pc = "summary"
          /\ \A t \in DOMAIN sess \ {s} : Finished(t))
         => /\ sess'[s].cur.scans_used = seed.scans_used + granted.scans_used
            /\ sess'[s].cur.ai_pages_generated =
                 seed.ai_pages_generated + granted.ai_pages_generated]_vars

\* C6: no step decreases a counter of a usage row
C6_CountersNeverDecrease ==
    [][\A r \in usage : \E r2 \in usage' :
         /\ r2.period_start = r.period_start
         /\ r2.scans_used >= r.scans_used
         /\ r2.prompts_used >= r.prompts_used
         /\ r2.ai_pages_generated >= r.ai_pages_generated]_vars

\* C7: a call rejected with the limit error has changed no committed row:
\* no counter, no new usage row, no field of the organization
C7_RejectedLeavesNoTrace ==
    \A s \in DOMAIN sess : sess[s].pc = "rejected" => ~sess[s].wrote

C9_ErrorCarriesCounter ==
    [][\A s \in DOMAIN sess :
         LET ss == sess[s]
         IN  (ss.pc = "reserve" /\ sess'[s].pc = "rejected"
              /\ ss.op = "require_scan_credit")
             => /\ sess'[s].res.resource = "Scan"
                /\ sess'[s].res.limit = Limits.scans
                /\ sess'[s].res.current = ss.cur.scans_used]_vars

\* C10: the returned period starts at midnight and contains the reference
\* time: period_start <= t < period_end
C10_PeriodContainsReference ==
    ppc = "returned"
    => /\ period.period_start.h = 0
       /\ ~Before(ref, period.period_start)
       /\ Before(ref, period.period_end)

\* C11: the period computed for a reference time equal to the returned
\* period's period_end is the next period: it starts exactly at that
\* period_end
C11_PeriodsTile ==
    ppc = "returned"
    => get_billing_period(anchor_in, period.period_end).period_start = period.period_end

\* C12: the day of month of the returned period_start is the anchor day when
\* period_start's month has that day, and the month's last day otherwise
C12_StartDayIsClampedAnchor ==
    ppc = "returned"
    => period.period_start.d =
         Min(anchor_in, DaysIn(period.period_start.y, period.period_start.m))

\* the scope of a call: (key, org_id, resource_type)
SameScope(a, b) ==
    a.key = b.key /\ a.org_id = b.org_id /\ a.resource_type = b.resource_type
RowsOfCall(cl) == ScopeRows(idem, cl.key, cl.org_id, cl.resource_type)
Stores(c) == call[c].fn = "store_idempotency_key"
\* the Reader's lookup is answered in this step
Answered == call[Reader].pc = "idle" /\ call'[Reader].pc = "returned"

C14_OneResponsePersisted ==
    /\ [](\A c \in Sessions :
            LET rows == RowsOfCall(call[c])
                allSame == \A d \in Sessions :
                               /\ Stores(d)
                               /\ call[d].pc = "returned"
                               /\ ~Not(call[d].key)
                               /\ SameScope(call[d], call[c])
                oneKept == \E d \in Sessions :
                               /\ call[d].out.kind = "stored"
                               /\ \A r \in rows :
                                    /\ r.status_code = call[d].status_code
                                    /\ PyEq(JsonLoads(r.response_body), call[d].body)
            IN  /\ Cardinality(rows) <= 1
                /\ allSame => (Cardinality(rows) = 1 /\ oneKept))
    /\ [][/\ idem \subseteq idem'
          /\ \A c \in Sessions :
               (Answered /\ SameScope(call'[Reader], call[c]) /\ RowsOfCall(call[c]) # {})
               => \E r \in RowsOfCall(call[c]) :
                    call'[Reader].out = Cached(r.status_code, JsonLoads(r.response_body))]_vars

\* two stores of one scope with different responses have returned, one of
\* them persisted its response, and a lookup returned exactly that response
C14_Witness ==
    \E c, d \in Sessions :
        /\ c # d /\ Stores(c) /\ Stores(d) /\ SameScope(call[c], call[d])
        /\ call[c].pc = "returned" /\ call[d].pc = "returned"
        /\ call[c].body # call[d].body
        /\ call[c].out.kind = "stored" /\ call[d].out.kind # "stored"
        /\ call[Reader].pc = "returned" /\ SameScope(call[Reader], call[c])
        /\ call[Reader].out = Cached(call[c].status_code, call[c].body)

\* C15: a store_idempotency_key call that ends while its scope has an entry,
\* also one committed after this call's existence check, returns normally
\* as a no-op and leaves the table unchanged
C15_StoreOnExistingIsNoOp ==
    [][\A c \in Sessions :
         (/\ call[c].pc \in {"query", "insert"} /\ call'[c].pc = "returned"
          /\ RowsOfCall(call[c]) # {})
         => /\ call'[c].out.kind = "no-op"
            /\ idem' = idem]_vars

\* C16: a store under a scope that has no entry persists its own response
\* also when the key text has an entry under another organization or
\* resource type, and a lookup never returns the entry of another scope
C16_ScopesAreIndependent ==
    [][/\ \A c \in Sessions :
            (/\ call[c].pc = "insert" /\ call'[c].pc = "returned"
             /\ RowsOfCall(call[c]) = {}
             /\ \E r \in idem : r.idempotency_key = call[c].key.text)
            => /\ call'[c].out.kind = "stored"
               /\ \E r \in idem' \ idem :
                    /\ r.org_id = call[c].org_id
                    /\ r.resource_type = call[c].resource_type
                    /\ r.status_code = call[c].status_code
       /\ (Answered /\ call'[Reader].out.kind = "cached")
            => \E r \in RowsOfCall(call'[Reader]) :
                 call'[Reader].out = Cached(r.status_code, JsonLoads(r.response_body))]_vars

\* the Idempotency-Key of request s is supplied and outside 16..255 characters
OutOfBounds(key) == key # NoHeader /\ (key.len < MinKeyLen \/ key.len > MaxKeyLen)

\* C17: a create_scan_run request whose supplied Idempotency-Key is shorter
\* than 16 characters (the empty string included) or longer than 255 is
\* answered with the 400 error, and has reserved no credit and created no
\* scan run (the enqueue comes after the scan run)
C17_BadKeyRejectedFirst ==
    \A s \in Sessions :
        (sess[s].op = "create_scan_run" /\ OutOfBounds(req[s].key))
        => /\ ~sess[s].wrote
           /\ ~req[s].ran
           /\ Finished(s) => sess[s].res.status = "bad_request"

\* C18: check_idempotency_key returns an entry only while the clock is before
\* the entry's expires_at, which is 24 hours after its creation; from
\* expires_at on the lookup returns None although the row is still stored
C18_ReturnedOnlyBeforeExpiry ==
    [][LET rd == call'[Reader]
           rows == RowsOfCall(rd)
       IN  Answered
           => /\ rd.out.kind = "cached"
                 => \E r \in rows :
                      /\ clock < r.expires_at
                      /\ r.expires_at = r.created_at + TTLHours
                      /\ rd.out = Cached(r.status_code, JsonLoads(r.response_body))
              /\ (\A r \in rows : clock >= r.expires_at)
                 => rd.out.kind \in {"None", "HTTP 400"}]_vars

\* a lookup at the very hour an entry expires returned None: the entry of
\* its scope is still in the table
C18_Witness ==
    /\ call[Reader].pc = "returned"
    /\ call[Reader].out = ReturnsNone
    /\ \E r \in RowsOfCall(call[Reader]) : r.expires_at = clock

\* C19: once a create_scan_run request with a valid Idempotency-Key has
\* committed its scan run and has been answered, a retry with the same key
\* is answered from the cache as the first call was: it commits no scan run
\* and reserves no credits
C19_RetryIsReplayed ==
    \A s \in Sessions :
        (req[s].retry /\ Finished(s))
        => /\ sess[s].res.status = "cached"
           /\ ~req[s].ran
           /\ ~sess[s].wrote
           /\ \A t \in Sessions \ {s} :
                (req[t].key = req[s].key /\ req[t].ran) => sess[t].res.status = "ok"

\* C20: when two concurrent create_scan_run requests with the same valid key
\* have both committed a scan run, the store of the first persists its
\* response and only the store of the second is deduplicated: both requests
\* are answered with the scan run and the key has exactly one entry
C20_SecondStoreDeduplicated ==
    \A s, t \in Sessions :
        (/\ s # t
         /\ req[s].key = req[t].key /\ ~Not(req[s].key)
         /\ req[s].ran /\ req[t].ran
         /\ ~req[s].retry /\ ~req[t].retry
         /\ Finished(s) /\ Finished(t))
        => /\ sess[s].res.status = "ok" /\ sess[t].res.status = "ok"
           /\ Cardinality(ScopeRows(idem, req[s].key, OrgId, "scan")) = 1
           /\ \E c \in {s, t} : call[c].out.kind = "no-op"


\* the calls with the key of call c that had returned a job before c began
AcceptedBefore(c) ==
    { d \in enq[c].prior :
        enq[d].out.kind = "Job" /\ enq[d].idempotency_key = enq[c].idempotency_key }

\* C21: once enqueue_scan or enqueue_page_generation has returned a job for
\* a key, a call with that key that begins later and checks the marker before
\* it expires returns None and pushes no job, whatever its payload; a call
\* whose key no other call uses is accepted
C21_DuplicateKeyNotEnqueued ==
    \A c \in Sessions :
        enq[c].pc = "returned"
        => /\ (\E d \in AcceptedBefore(c) : enq[c].checked_at < enq[d].stored_at + MarkerTTL)
              => (enq[c].out.kind = "None" /\ ~enq[c].pushed)
           /\ (\A d \in Sessions \ {c} : enq[d].idempotency_key # enq[c].idempotency_key)
              => (enq[c].out.kind = "Job" /\ enq[c].pushed)

\* a later call with the key of an accepted job and another payload returned
\* None, and the queues hold the one job of the first call
C21_Witness ==
    \E c \in Sessions :
        /\ enq[c].pc = "returned"
        /\ enq[c].out.kind = "None"
        /\ \E d \in AcceptedBefore(c) : enq[d].arg # enq[c].arg /\ enq[d].fn # enq[c].fn
        /\ Len(redis.queued.scans) + Len(redis.queued.pages) = 1
        /\ Cardinality(redis.jobs) = 1

\* C26: when the marker of a key has expired, an enqueue with that key is
\* accepted again, and its job has the id of the first submission
C26_ExpiredMarkerAcceptsSameJobId ==
    \A c \in Sessions :
        (enq[c].pc = "returned" /\ enq[c].marker = "expired")
        => /\ enq[c].out.kind = "Job"
           /\ enq[c].pushed
           /\ \A d \in AcceptedBefore(c) : enq[c].out.id = enq[d].out.id

\* a key was accepted a second time, 24 hours or more after its marker was
\* stored, under the job id of the first time
C26_Witness ==
    \E c \in Sessions :
        /\ enq[c].pc = "returned"
        /\ enq[c].marker = "expired"
        /\ \E d \in AcceptedBefore(c) :
             /\ enq[c].checked_at >= enq[d].stored_at + MarkerTTL
             /\ enq[c].out = enq[d].out

\* C30: of two concurrent enqueue_scan calls with the same key (neither had
\* returned when the other began) at most one returns a job and at most one
\* pushes a job onto the queue
C30_AtMostOneJobPerKey ==
    \A c, d \in Sessions :
        (/\ c # d
         /\ enq[c].pc = "returned" /\ enq[d].pc = "returned"
         /\ enq[c].fn = "enqueue_scan" /\ enq[d].fn = "enqueue_scan"
         /\ enq[c].idempotency_key = enq[d].idempotency_key
         /\ c \notin enq[d].prior /\ d \notin enq[c].prior)
        => /\ ~(enq[c].out.kind = "Job" /\ enq[d].out.kind = "Job")
           /\ ~(enq[c].pushed /\ enq[d].pushed)


\* the job hashes made for a key (the job and its retries carry the key in
\* their meta) that a worker has taken from its queue
Attempts(key) ==
    { j \in redis.jobs : j.meta.idempotency_key = key /\ j.status # "queued" }

\* the entries of the dead-letter queue "failed" for a key
DeadLetters(key) ==
    { i \in DOMAIN redis.queued.failed : redis.queued.failed[i][2] = key }

\* a job of the key has finished without error
Succeeded(key) ==
    \E j \in redis.jobs : j.meta.idempotency_key = key /\ j.status = "finished"

\* C22: an accepted job whose attempts all fail is in the end attempted
\* MAX_RETRIES + 1 = 4 times and has exactly one dead-letter entry, and it
\* has no dead-letter entry before its 4th attempt
C22_FourAttemptsThenDeadLetter ==
    /\ [](\A c \in Sessions :
            DeadLetters(enq[c].idempotency_key) # {}
            => Cardinality(Attempts(enq[c].idempotency_key)) = MAX_RETRIES + 1)
    /\ \A c \in Sessions :
         (enq[c].out.kind = "Job")
         ~> (/\ Cardinality(Attempts(enq[c].idempotency_key)) = MAX_RETRIES + 1
             /\ Cardinality(DeadLetters(enq[c].idempotency_key)) = 1
             \/ Succeeded(enq[c].idempotency_key))

\* C23: every accepted job eventually succeeds or is dead-lettered
C23_AcceptedJobsTerminate ==
    \A c \in Sessions :
        (enq[c].out.kind = "Job")
        ~> (Succeeded(enq[c].idempotency_key) \/ DeadLetters(enq[c].idempotency_key) # {})


\* C27: no step of a get_usage_summary call changes committed state: the
\* organization row (billing_cycle_anchor and the cached period bounds
\* included), the usage rows and their counters, the scan runs
C27_SummaryIsReadOnly ==
    [][\A s \in DOMAIN sess :
          (sess'[s] # sess[s] /\ sess'[s].op = "get_usage_summary")
          => (org' = org /\ usage' = usage /\ scan_runs' = scan_runs)]_vars


\* C28: for every used >= 0 and every limit, check_warning returns true
\* exactly when the limit is finite and positive and 5 * used >= 4 * limit
C28_WarnAtFourFifths ==
    warn.pc = "returned"
    => (warn.out <=> (/\ warn.limit # None
                      /\ warn.limit > 0
                      /\ 5 * warn.current >= 4 * warn.limit))

\* the flag was raised at exactly 80% of a limit
C28_Witness ==
    /\ warn.pc = "returned"
    /\ warn.out
    /\ warn.limit > 0
    /\ 5 * warn.current = 4 * warn.limit


\* pages a walk over n brands takes: ceil(n / limit), one for no brand
PagesOf(n, limit) == IF n = 0 THEN 1 ELSE (n + limit - 1) \div limit

\* C29: a walk from the first page along next_cursor never returns a brand
\* twice, ends after the ceil(n / limit) pages the n brands fill, and has
\* then returned every brand of the organization
C29_WalkReturnsEachBrandOnce ==
    /\ \A i, j \in DOMAIN walk.seen : walk.seen[i] = walk.seen[j] => i = j
    /\ walk.pc = "next" => walk.pages < PagesOf(Cardinality(brands), walk.limit)
    /\ walk.pc = "done" => { walk.seen[i] : i \in DOMAIN walk.seen } = { b.id : b \in brands }

\* the number of rows of a table equal to r
Copies(rows, r) == Cardinality({ i \in DOMAIN rows : rows[i] = r })

\* C32: executing the scan job twice for the same scan run leaves the same
\* scan results and mentions as executing it once: after the second
\* execution every result row, with its mentions, is in the table as often
\* as the first execution left it.
C32_TwiceSameAsOnce ==
    exec.runs >= 2 =>
        \A i \in DOMAIN exec.scan_results :
            Copies(exec.scan_results, exec.scan_results[i])
                = Copies(exec.once, exec.scan_results[i])

\* C33: a call of cleanup_expired_keys deletes at most batch_size rows, only
\* rows whose expires_at is at or before the current time, and returns the
\* number of rows it deleted.
C33_SweepDeletesExpiredBatch ==
    [][\A c \in Sessions :
          (call[c].pc = "idle" /\ call'[c].fn = "cleanup_expired_keys") =>
              LET deleted == idem \ idem'
              IN  /\ idem' \subseteq idem
                  /\ Cardinality(deleted) <= call'[c].batch_size
                  /\ \A r \in deleted : r.expires_at <= clock
                  /\ call'[c].out = [NoOutcome EXCEPT !.kind = "returned",
                                                      !.status = Cardinality(deleted)]]_vars

\* C37: a store made after an entry of the same key, organization and
\* resource type has expired, and before the sweep has removed it, persists
\* the new response: a lookup that follows the store returns that response.
C37_StoreAfterExpiryPersists ==
    [][\A c \in Sessions :
          LET cl == call[c]
          IN  (/\ cl.fn = "store_idempotency_key"
               /\ cl.pc # "returned"
               /\ call'[c].pc = "returned"
               /\ ScopeRows(idem, cl.key, cl.org_id, cl.resource_type) # {}
               /\ LiveRows(idem, cl.key, cl.org_id, cl.resource_type, clock) = {})
              => check_idempotency_key(idem', clock', cl.key, cl.org_id, cl.resource_type)
                     = Cached(cl.status_code, cl.body)]_vars

\* C34: under concurrent create_brand and invite_member requests the number
\* of brands of the organization never exceeds the brands limit of its plan
\* and the number of members never exceeds the seats limit.
C34_CountsWithinPlan ==
    /\ get_plan(counts).brands # None => counts.brands <= get_plan(counts).brands
    /\ get_plan(counts).seats # None => counts.seats <= get_plan(counts).seats

\* C35: when the organization has no usage row for the period, every one of
\* the concurrent first reservations ends in success or in the limit error,
\* never in another error, and once all have ended the period has at most
\* one row, which holds the sum of the successful amounts (and exists when a
\* reservation succeeded).
C35_FirstReservationsShareOneRow ==
    seed = NoCounters =>
        /\ \A s \in DOMAIN sess : sess[s].pc # "error"
        /\ (\A s \in DOMAIN sess : Finished(s)) =>
               /\ Cardinality(usage) <= 1
               /\ Ledger.scans_used = granted.scans_used
               /\ Ledger.ai_pages_generated = granted.ai_pages_generated
               /\ (\E s \in DOMAIN sess : sess[s].pc = "done") => Cardinality(usage) = 1

\* C36: for a fixed anchor, every reference time inside the returned period
\* [period_start, period_end) is given that same period.
C36_PeriodIsStableInside ==
    ppc = "returned"
    => \A t \in ReferenceDates :
           (~Before(t, period.period_start) /\ Before(t, period.period_end))
           => get_billing_period(anchor_in, t) = period

\* the markers stored under a key, expired or not
MarkersOf(key) == { mk \in redis.markers : mk.redis_key = RedisKey(key) }

\* the job of a key is on one of the queues
OnQueue(key) ==
    \E q \in {"scans", "pages"} :
        \E i \in DOMAIN redis.queued[q] : redis.queued[q][i] = _generate_job_id(key)

\* C38: after a call of enqueue_scan has returned or raised, and while no
\* marker of its key has expired, the job of the key is on the queue exactly
\* when the marker of the key is set, and a call that put a job on the queue
\* did not end in an error.
C38_JobIffMarker ==
    \A c \in Sessions :
        (enq[c].pc = "returned" /\ enq[c].fn = "enqueue_scan")
        => /\ (\A mk \in MarkersOf(enq[c].idempotency_key) : clock < mk.expires_at)
              => (OnQueue(enq[c].idempotency_key) <=> MarkersOf(enq[c].idempotency_key) # {})
           /\ enq[c].pushed => enq[c].out.kind \in {"Job", "None"}

\* C39: whenever create_scan_run has returned the scan run it created, with
\* the queue backend reachable, the request has put a scan job on queue
\* 'scans': its enqueue_scan call returned a job and the queue holds it.
C39_CreatedScanRunIsEnqueued ==
    \A s \in Sessions :
        (/\ sess[s].pc = "done"
         /\ sess[s].op = "create_scan_run"
         /\ sess[s].res.status = "ok")
        => /\ enq[s].out.kind = "Job"
           /\ \E i \in DOMAIN redis.queued.scans : redis.queued.scans[i] = enq[s].out.id

\* C40: for every model list a request may carry, the credits create_scan_run
\* reserves equal the sum of the weights require_scan_credit charges for the
\* models of the list.
C40_ReservedEqualsCharged ==
    quote.pc = "priced" => quote.reserved = quote.charged

====
